---- MODULE Spec2Model ----
(***************************************************************************)
(* Model of src/app.py: the query tokenizer (parse_query /                 *)
(* search._smart_tokens), the query compiler (msg_filter_clause,           *)
(* build_sparql), the execution of the compiled query over the dataset     *)
(* (search), the validator (validate_graph) and the derived-type helpers   *)
(* (pseudo_inferred_types, merged_inferred_type_list).                     *)
(*                                                                         *)
(* Python strings are modelled as sequences of one-character strings, so   *)
(* that split, strip, lower, CONTAINS and REPLACE are computed, not        *)
(* assumed.                                                                *)
(***************************************************************************)
EXTENDS Integers, Sequences, FiniteSets, Bags, TLC

\* ---------------------------------------------------------------- bounds
MaxTerms == 3
NumCommits == 2

\* ------------------------------------------------------- string helpers
WS == {" "}
LowerAlpha == {"a","b","c","d","e","f","g","h","i","j","k","l","m",
               "n","o","p","q","r","s","t","u","v","w","x","y","z"}
Digits == {"0","1","2","3","4","5","6","7","8","9"}
UpperSeq == <<"A","B","C","D","E","F","G","H","I","J","K","L","M",
              "N","O","P","Q","R","S","T","U","V","W","X","Y","Z">>
LowerSeq == <<"a","b","c","d","e","f","g","h","i","j","k","l","m",
              "n","o","p","q","r","s","t","u","v","w","x","y","z">>

LowerChar(c) ==
  IF \E i \in 1..26 : UpperSeq[i] = c
    THEN LowerSeq[CHOOSE i \in 1..26 : UpperSeq[i] = c]
    ELSE c

\* str.lower()
Lower(s) == [i \in 1..Len(s) |-> LowerChar(s[i])]

Chars(s) == {s[i] : i \in 1..Len(s)}

\* str.strip()
RECURSIVE LStrip(_)
LStrip(s) == IF s # <<>> /\ Head(s) \in WS THEN LStrip(Tail(s)) ELSE s

RECURSIVE RStrip(_)
RStrip(s) ==
  IF s # <<>> /\ s[Len(s)] \in WS THEN RStrip(SubSeq(s, 1, Len(s) - 1)) ELSE s

Strip(s) == RStrip(LStrip(s))

\* str.split(): split on runs of whitespace, no empty parts
RECURSIVE SplitAcc(_, _, _)
SplitAcc(s, cur, acc) ==
  IF s = <<>>
    THEN IF cur = <<>> THEN acc ELSE Append(acc, cur)
    ELSE IF Head(s) \in WS
      THEN SplitAcc(Tail(s), <<>>, IF cur = <<>> THEN acc ELSE Append(acc, cur))
      ELSE SplitAcc(Tail(s), Append(cur, Head(s)), acc)

Split(s) == SplitAcc(s, <<>>, <<>>)

HasColon(p) == ":" \in Chars(p)

FirstColon(p) == CHOOSE i \in 1..Len(p) : p[i] = ":" /\ \A j \in 1..(i - 1) : p[j] # ":"

\* p.split(":", 1)
BeforeColon(p) == SubSeq(p, 1, FirstColon(p) - 1)
AfterColon(p) == SubSeq(p, FirstColon(p) + 1, Len(p))

StartsWith(s, pre) == Len(s) >= Len(pre) /\ SubSeq(s, 1, Len(pre)) = pre

\* Python "needle in hay" / SPARQL CONTAINS(hay, needle)
Contains(hay, needle) ==
  \E i \in 0..(Len(hay) - Len(needle)) : SubSeq(hay, i + 1, i + Len(needle)) = needle

\* dict: a function from key strings to value strings
EmptyDict == [k \in {} |-> <<>>]
DictSet(d, k, v) == [x \in (DOMAIN d) \cup {k} |-> IF x = k THEN v ELSE d[x]]
DictSetDefault(d, k, v) == IF k \in DOMAIN d THEN d ELSE DictSet(d, k, v)
\* tokens.get(k): None (modelled as the empty string, equally falsy) when absent
DictGet(d, k) == IF k \in DOMAIN d THEN d[k] ELSE <<>>

\* ------------------------------------------------------ string literals
K_msg == <<"m","s","g">>
K_type == <<"t","y","p","e">>
K_limit == <<"l","i","m","i","t">>
K_author == <<"a","u","t","h","o","r">>
K_branch == <<"b","r","a","n","c","h">>
K_repo == <<"r","e","p","o">>
V_commit == <<"c","o","m","m","i","t">>
V_merge == <<"m","e","r","g","e">>
V_initial == <<"i","n","i","t","i","a","l">>
V_root == <<"r","o","o","t">>
V_main == <<"m","a","i","n">>
V_alice == <<"a","l","i","c","e">>
V_test == <<"t","e","s","t">>
V_unit == <<"u","n","i","t">>

\* -------------------------------------------------------------- tokenizer
\* One iteration of the while loop of parse_query, without the consumption
\* of the following term (the i += 1 of line 122 dropped).
parse_step_noconsume(parts, i, tokens) ==
  LET p == parts[i] IN
  IF HasColon(p)
    THEN LET k == Strip(Lower(BeforeColon(p)))
             v0 == Strip(AfterColon(p))
             recover == v0 = <<>> /\ i + 1 <= Len(parts) /\ ~HasColon(parts[i + 1])
             v == IF recover THEN Strip(parts[i + 1]) ELSE v0
         IN [i |-> i + 1,
             tokens |-> IF v # <<>> THEN DictSet(tokens, k, v) ELSE tokens]
    ELSE [i |-> i + 1, tokens |-> DictSetDefault(tokens, K_msg, p)]

\* One iteration of the while loop of parse_query (lines 114-128).
parse_step(parts, i, tokens) ==
  LET p == parts[i] IN
  IF HasColon(p)
    THEN LET k == Strip(Lower(BeforeColon(p)))
             v0 == Strip(AfterColon(p))
             recover == v0 = <<>> /\ i + 1 <= Len(parts) /\ ~HasColon(parts[i + 1])
             v == IF recover THEN Strip(parts[i + 1]) ELSE v0
             i1 == IF recover THEN i + 1 ELSE i
         IN [i |-> i1 + 1,
             tokens |-> IF v # <<>> THEN DictSet(tokens, k, v) ELSE tokens]
    ELSE [i |-> i + 1, tokens |-> DictSetDefault(tokens, K_msg, p)]

RECURSIVE parse_loop(_, _, _)
parse_loop(parts, i, tokens) ==
  IF i <= Len(parts)
    THEN LET st == parse_step(parts, i, tokens) IN parse_loop(parts, st.i, st.tokens)
    ELSE tokens

parse_query(qs) == parse_loop(Split(Strip(qs)), 1, EmptyDict)

\* search._smart_tokens: the same loop, written a second time in the source.
smart_step(parts, i, tokens) ==
  LET p == parts[i] IN
  IF HasColon(p)
    THEN LET k == Strip(Lower(BeforeColon(p)))
             v0 == Strip(AfterColon(p))
             recover == v0 = <<>> /\ i + 1 <= Len(parts) /\ ~HasColon(parts[i + 1])
             v == IF recover THEN Strip(parts[i + 1]) ELSE v0
             i1 == IF recover THEN i + 1 ELSE i
         IN [i |-> i1 + 1,
             tokens |-> IF v # <<>> THEN DictSet(tokens, k, v) ELSE tokens]
    ELSE [i |-> i + 1, tokens |-> DictSetDefault(tokens, K_msg, p)]

RECURSIVE smart_loop(_, _, _)
smart_loop(parts, i, tokens) ==
  IF i <= Len(parts)
    THEN LET st == smart_step(parts, i, tokens) IN smart_loop(parts, st.i, st.tokens)
    ELSE tokens

smart_tokens(text) == smart_loop(Split(Strip(text)), 1, EmptyDict)

\* ------------------------------------------------ more string literals
V_demo == <<"d","e","m","o">>
V_dev == <<"d","e","v">>
V_bob == <<"b","o","b">>
M_unit_test == <<"A","d","d","e","d"," ","u","n","i","t"," ","t","e","s","t"," ",
                 "c","o","v","e","r","a","g","e">>
M_unittest == <<"A","d","d","e","d"," ","u","n","i","t","t","e","s","t"," ",
                "c","o","v","e","r","a","g","e">>
M_contested == <<"c","o","n","t","e","s","t","e","d">>
M_merge_branch == <<"M","e","r","g","e"," ","b","r","a","n","c","h"," ","d","e","v">>
M_run_test == <<"R","u","n"," ","T","e","s","t","!">>
M_quoted == <<"a"," ","\"","u","n","i","t","\""," ","t","e","s","t">>
M_fix == <<"f","i","x"," ","t","y","p","o">>

\* ------------------------------------------------------- the dataset
\* The loaded ontology / RDF graph.  Entities are the domains of its
\* property maps; every property holds a set of values (a list in
\* Owlready2, a set of triples in rdflib).
VARIABLES onto,        \* the dataset: a record of property maps
          filterScope, \* whether the query engine lets a FILTER inside a
                       \* UNION branch see the variables bound outside it
          pc,          \* which operation has run ("idle" before any)
          qs,          \* the query string of the request
          ind,         \* the individual handed to the derived-type helpers
          ret          \* what the operation returned

vars == <<onto, filterScope, pc, qs, ind, ret>>

Repository == DOMAIN onto.hasBranch
Branch == DOMAIN onto.hasCommit
Commit == DOMAIN onto.hasParent
User == DOMAIN onto.userLogin

\* lines 28-36: whether the dataset holds any hasParent triple
HAS_PARENTS == \E c \in Commit : onto.hasParent[c] # {}

\* ---------------------------------------------------- msg_filter_clause
\* The clause is kept as its mode and the text the f-string puts between
\* the double quotes of the SPARQL string literal.
msg_filter_clause(term) ==
  LET t0 == Strip(term)
      is_phrase == Len(t0) >= 2 /\ t0[1] = "\"" /\ t0[Len(t0)] = "\""
      explicit_word == StartsWith(t0, <<"=">>)
      explicit_sub == StartsWith(t0, <<"~">>)
      t1 == IF explicit_word \/ explicit_sub THEN Strip(Tail(t0)) ELSE t0
      t == IF is_phrase THEN Strip(SubSeq(t1, 2, Len(t1) - 1)) ELSE t1
  IN IF t = <<>> THEN [tag |-> "noop", lit |-> <<>>]
     ELSE IF explicit_sub THEN [tag |-> "msg_sub", lit |-> Lower(t)]
     ELSE [tag |-> "msg_word", lit |-> <<" ">> \o Lower(t) \o <<" ">>]

\* int(): an optional sign and at least one decimal digit
DigitVal(c) == CHOOSE n \in 0..9 : <<"0","1","2","3","4","5","6","7","8","9">>[n + 1] = c

RECURSIVE DigitsVal(_, _)
DigitsVal(s, acc) == IF s = <<>> THEN acc ELSE DigitsVal(Tail(s), 10 * acc + DigitVal(Head(s)))

IsInt(s) ==
  LET body == IF s # <<>> /\ Head(s) \in {"+", "-"} THEN Tail(s) ELSE s
  IN body # <<>> /\ Chars(body) \subseteq Digits

IntOf(s) ==
  IF Head(s) = "-" THEN 0 - DigitsVal(Tail(s), 0)
  ELSE IF Head(s) = "+" THEN DigitsVal(Tail(s), 0)
  ELSE DigitsVal(s, 0)

DEFAULT_LIMIT == 50

\* str.replace('"', '\\"')
RECURSIVE EscapeQuotes(_)
EscapeQuotes(s) ==
  IF s = <<>> THEN <<>>
  ELSE IF Head(s) = "\"" THEN <<"\\", "\"">> \o EscapeQuotes(Tail(s))
  ELSE <<Head(s)>> \o EscapeQuotes(Tail(s))

\* ---------------------------------------------------------- build_sparql
\* Entity-type constraints (lines 193-222).
entity_clauses(ent) ==
  (IF ent = V_merge
     THEN IF HAS_PARENTS THEN <<[tag |-> "merge_union", lit |-> <<>>]>>
                         ELSE <<[tag |-> "merge_msg", lit |-> <<>>]>>
     ELSE <<>>)
  \o
  (IF ent = V_initial
     THEN IF HAS_PARENTS THEN <<[tag |-> "initial_union", lit |-> <<>>]>>
                         ELSE <<[tag |-> "initial_type", lit |-> <<>>]>>
     ELSE <<>>)

\* Filters (lines 224-248).
filter_clauses(tokens) ==
  (IF DictGet(tokens, K_msg) # <<>>
     THEN <<msg_filter_clause(tokens[K_msg])>> ELSE <<>>)
  \o
  (IF DictGet(tokens, K_author) # <<>>
     THEN <<[tag |-> "author", lit |-> EscapeQuotes(Lower(tokens[K_author]))]>> ELSE <<>>)
  \o
  (IF DictGet(tokens, K_branch) # <<>>
     THEN <<[tag |-> "branch", lit |-> EscapeQuotes(tokens[K_branch])]>> ELSE <<>>)
  \o
  (IF DictGet(tokens, K_repo) # <<>>
     THEN <<[tag |-> "repo", lit |-> EscapeQuotes(Lower(tokens[K_repo]))]>> ELSE <<>>)

\* build_sparql: the compiled query, or the exception int() raises.
build_sparql(tokens) ==
  LET ent == Lower(IF K_type \in DOMAIN tokens THEN tokens[K_type] ELSE V_commit)
      lim == DictGet(tokens, K_limit)
  IN IF lim # <<>> /\ ~IsInt(lim)
       THEN [status |-> "raise", exc |-> "ValueError", ent |-> ent,
             limit |-> 0, where |-> <<>>]
       ELSE [status |-> "ok", exc |-> "",
             ent |-> ent,
             limit |-> IF lim # <<>> THEN IntOf(lim) ELSE DEFAULT_LIMIT,
             where |-> entity_clauses(ent) \o filter_clauses(tokens)]

\* ------------------------------------------------- query evaluation
\* What the SPARQL text built at lines 179-250 computes over the dataset.

\* REGEX(LCASE(STR(?msg)), "^(merge( pull request)?|merge branch|merged )")
MergeHeuristic(m) ==
  LET l == Lower(m) IN
    \/ StartsWith(l, V_merge)
    \/ StartsWith(l, V_merge \o <<" ","p","u","l","l"," ","r","e","q","u","e","s","t">>)
    \/ StartsWith(l, V_merge \o <<" ","b","r","a","n","c","h">>)
    \/ StartsWith(l, V_merge \o <<"d"," ">>)

IsAlnumLower(c) == c \in LowerAlpha \/ c \in Digits

\* REPLACE(?_m, "[^a-z0-9]+", " ")
RECURSIVE CollapseNonAlnum(_, _)
CollapseNonAlnum(s, inRun) ==
  IF s = <<>> THEN <<>>
  ELSE IF IsAlnumLower(Head(s)) THEN <<Head(s)>> \o CollapseNonAlnum(Tail(s), FALSE)
  ELSE IF inRun THEN CollapseNonAlnum(Tail(s), TRUE)
  ELSE <<" ">> \o CollapseNonAlnum(Tail(s), TRUE)

\* the three BINDs of norm_bind (lines 158-162)
PaddedNorm(m) == <<" ">> \o CollapseNonAlnum(Lower(m), FALSE) \o <<" ">>

\* The text between the double quotes of a SPARQL string literal: a bare
\* double quote ends the literal early and the query no longer parses.
RECURSIVE LiteralOk(_)
LiteralOk(raw) ==
  IF raw = <<>> THEN TRUE
  ELSE IF Head(raw) = "\"" THEN FALSE
  ELSE IF Head(raw) = "\\"
    THEN Len(raw) >= 2 /\ raw[2] \in {"\"", "\\"} /\ LiteralOk(Tail(Tail(raw)))
  ELSE LiteralOk(Tail(raw))

RECURSIVE LiteralValue(_)
LiteralValue(raw) ==
  IF raw = <<>> THEN <<>>
  ELSE IF Head(raw) = "\\" THEN <<raw[2]>> \o LiteralValue(Tail(Tail(raw)))
  ELSE <<Head(raw)>> \o LiteralValue(Tail(raw))

\* OPTIONAL { ... ?x }: every value, or one unbound solution
Opt(S) == IF S = {} THEN {<<>>} ELSE {<<x>> : x \in S}
Range(f) == {f[i] : i \in DOMAIN f}

\* local(x) of an individual
LocalName(id) ==
  CASE id = "r1" -> <<"r","1">> [] id = "r2" -> <<"r","2">> [] id = "r3" -> <<"r","3">>
    [] id = "b1" -> <<"b","1">> [] id = "b2" -> <<"b","2">> [] id = "b3" -> <<"b","3">>
    [] id = "alice" -> V_alice [] id = "bob" -> V_bob
    [] OTHER -> <<"x">>

\* The core pattern (lines 182-189): one solution per branch, commit of the
\* branch, repository owning the branch, and value of each OPTIONAL.
CoreSolutions ==
  UNION { UNION { UNION {
    { [repo |-> r, branch |-> b, commit |-> c, msg |-> m, branchName |-> bn,
       repoName |-> rn, user |-> ua[1], authorName |-> ua[2]] :
        m \in Opt(onto.commitMessage[c]),
        bn \in Opt(Range(onto.branchName[b])),
        rn \in Opt(Range(onto.repoFullName[r])),
        ua \in IF onto.madeBy[c] = {} THEN {<< <<>>, <<>> >>}
               ELSE UNION { {<< <<u>>, an >> : an \in Opt(onto.userLogin[u])} :
                             u \in onto.madeBy[c] } }
    : r \in {x \in Repository : b \in onto.hasBranch[x]} }
    : c \in onto.hasCommit[b] }
    : b \in Branch }

\* One clause of the WHERE block, as a condition on a core solution.
ClauseHolds(cl, s) ==
  CASE cl.tag = "noop" -> TRUE
    [] cl.tag = "merge_msg" -> s.msg # <<>> /\ MergeHeuristic(s.msg[1])
    [] cl.tag = "merge_union" ->
         \/ "MergeCommit" \in onto.is_a[s.commit]
         \/ Cardinality(onto.hasParent[s.commit]) >= 2
         \/ (filterScope /\ s.msg # <<>> /\ MergeHeuristic(s.msg[1]))
    [] cl.tag = "initial_type" -> "InitialCommit" \in onto.is_a[s.commit]
    [] cl.tag = "initial_union" ->
         \/ "InitialCommit" \in onto.is_a[s.commit]
         \/ (IF filterScope THEN onto.hasParent[s.commit] = {} ELSE ~HAS_PARENTS)
    [] cl.tag = "msg_sub" ->
         s.msg # <<>> /\ Contains(Lower(s.msg[1]), LiteralValue(cl.lit))
    [] cl.tag = "msg_word" ->
         s.msg # <<>> /\ Contains(PaddedNorm(s.msg[1]), LiteralValue(cl.lit))
    [] cl.tag = "author" ->
         /\ s.user # <<>>
         /\ Lower(IF s.authorName # <<>> THEN s.authorName[1] ELSE LocalName(s.user[1]))
              = LiteralValue(cl.lit)
    [] cl.tag = "branch" -> s.branchName # <<>> /\ s.branchName[1] = LiteralValue(cl.lit)
    [] cl.tag = "repo" ->
         s.repoName # <<>> /\ Contains(Lower(s.repoName[1]), LiteralValue(cl.lit))

\* str(c) if c is not None else ""   (line 410)
Cell(o) == IF o = <<>> THEN <<>> ELSE o[1]

\* SELECT DISTINCT ?repoName ?branchName ?commit ?msg ?authorName
ProjectRow(s) ==
  [repoName |-> Cell(s.repoName), branchName |-> Cell(s.branchName),
   commit |-> s.commit, msg |-> Cell(s.msg), authorName |-> Cell(s.authorName)]

\* the query parses: every string literal is closed where the f-string
\* closes it, and LIMIT is an unsigned integer
QueryParses(plan) ==
  /\ plan.limit >= 0
  /\ \A j \in 1..Len(plan.where) : LiteralOk(plan.where[j].lit)

\* the solutions of the WHERE block
Solutions(plan) ==
  {x \in CoreSolutions : \A j \in 1..Len(plan.where) : ClauseHolds(plan.where[j], x)}

\* plain SELECT: the projected rows, one per solution (a bag of rows)
SelectAll(S) ==
  [row \in {ProjectRow(s) : s \in S} |-> Cardinality({s \in S : ProjectRow(s) = row})]

\* SELECT DISTINCT (line 179): every projected row once
SelectDistinct(S) == [row \in {ProjectRow(s) : s \in S} |-> 1]

\* LIMIT n without ORDER BY: any n of the rows
LimitChoices(B, n) ==
  IF n >= BagCardinality(B) THEN {B} ELSE {T \in SubBag(B) : BagCardinality(T) = n}

\* line 372
is_raw_sparql(q) ==
  LET l == Lower(q) IN
    \/ StartsWith(l, <<"p","r","e","f","i","x">>)
    \/ Contains(l, <<"s","e","l","e","c","t">>)
    \/ Contains(l, <<"w","h","e","r","e">>)

\* search (lines 364-416) for a DSL query: tokenize, compile, run.  The
\* outcomes are the rows, or the "Query error" row of the except branch.
QueryError == [status |-> "Query error", rows |-> EmptyBag]

SearchOutcomes(q) ==
  IF Strip(q) = <<>> THEN {[status |-> "ok", rows |-> EmptyBag]}
  ELSE LET plan == build_sparql(smart_tokens(Strip(q))) IN
    IF plan.status = "raise" \/ ~QueryParses(plan) THEN {QueryError}
    ELSE {[status |-> "ok", rows |-> rows] :
            rows \in LimitChoices(SelectDistinct(Solutions(plan)), plan.limit)}

\* --------------------------------------------------------- validate_graph
\* (the rule texts write >= for the source's U+2265 sign)
RepoOrder == <<"r1", "r2", "r3">>
BranchOrder == <<"b1", "b2", "b3", "b4", "b5">>

\* the instances of a class in discovery order
RECURSIVE InOrder(_, _)
InOrder(order, S) ==
  IF order = <<>> THEN <<>>
  ELSE (IF Head(order) \in S THEN <<Head(order)>> ELSE <<>>) \o InOrder(Tail(order), S)

UNNAMED == <<"<","u","n","n","a","m","e","d",">">>
BRANCH_ == <<"B","r","a","n","c","h"," ">>

\* getattr(x, name, default): the default only when the ontology declares
\* no such property; a declared property without values is an empty list
GetAttr(name, values, default) == IF name \in onto.props THEN values ELSE default

\* [0] of an empty list raises IndexError
RepoLabelRaises(r) ==
  onto.hasBranch[r] = {} /\ GetAttr("repoFullName", onto.repoFullName[r], <<LocalName(r)>>) = <<>>

BranchLabelRaises(b) == GetAttr("branchName", onto.branchName[b], <<UNNAMED>>) = <<>>

\* lines 89-93
RepoIssues(r) ==
  IF Cardinality(onto.hasBranch[r]) < 1
    THEN <<[where |-> GetAttr("repoFullName", onto.repoFullName[r], <<LocalName(r)>>)[1],
            rule |-> "Repository must have >=1 branch",
            fix |-> "Add Branch via hasBranch"]>>
    ELSE <<>>

\* lines 94-105
BranchIssues(b) ==
  LET name == GetAttr("branchName", onto.branchName[b], <<UNNAMED>>)[1] IN
    (IF onto.hasInitialCommit[b] = {}
       THEN <<[where |-> BRANCH_ \o name,
               rule |-> "Branch must have an initial commit",
               fix |-> "Link via hasInitialCommit"]>>
       ELSE <<>>)
    \o
    (IF Cardinality(onto.hasCommit[b]) < 1
       THEN <<[where |-> BRANCH_ \o name,
               rule |-> "Branch must have >=1 commit",
               fix |-> "Attach commits via hasCommit"]>>
       ELSE <<>>)

\* the two for loops, appending to errs
RECURSIVE AllRepoIssues(_)
AllRepoIssues(rs) == IF rs = <<>> THEN <<>> ELSE RepoIssues(Head(rs)) \o AllRepoIssues(Tail(rs))

RECURSIVE AllBranchIssues(_)
AllBranchIssues(bs) ==
  IF bs = <<>> THEN <<>> ELSE BranchIssues(Head(bs)) \o AllBranchIssues(Tail(bs))

validate_graph ==
  IF \/ \E r \in Repository : RepoLabelRaises(r)
     \/ \E b \in Branch : BranchLabelRaises(b)
    THEN [status |-> "raise", exc |-> "IndexError", errs |-> <<>>]
    ELSE [status |-> "ok", exc |-> "",
          errs |-> AllRepoIssues(InOrder(RepoOrder, Repository))
                   \o AllBranchIssues(InOrder(BranchOrder, Branch))]

\* ---------------------------------------------------- derived-type helpers
MULTI_BRANCH_MIN == 5

\* class names in the order of sort(key=lambda c: c.name)
ClassOrder == <<"Commit", "InitialCommit", "MergeCommit", "MultiBranchRepository",
                "Repository", "Thing">>

asserted_types(i) == onto.is_a[i]

reasoned_types(i) == onto.indirect_is_a[i]

\* isinstance(ind, getattr(onto, cls, Thing))
IsInstance(i, cls, members) == IF cls \in onto.classes THEN i \in members ELSE TRUE

pseudo_inferred_types(i) ==
  (IF IsInstance(i, "Commit", Commit) /\ i \in Commit
     THEN (IF Cardinality(onto.hasParent[i]) >= 2 /\ "MergeCommit" \in onto.classes
             THEN {"MergeCommit"} ELSE {})
          \cup
          (IF Cardinality(onto.hasParent[i]) = 0 /\ "InitialCommit" \in onto.classes
             THEN {"InitialCommit"} ELSE {})
     ELSE {})
  \cup
  (IF IsInstance(i, "Repository", Repository) /\ i \in Repository
     THEN (IF Cardinality(onto.hasBranch[i]) >= MULTI_BRANCH_MIN
                /\ "MultiBranchRepository" \in onto.classes
             THEN {"MultiBranchRepository"} ELSE {})
     ELSE {})

merged_inferred_type_list(i) ==
  InOrder(ClassOrder, (reasoned_types(i) \ asserted_types(i)) \cup pseudo_inferred_types(i))

\* ---------------------------------------------------------------- actions
\* parse_query applied to the request's query string
DoParseQuery ==
  /\ pc = "idle"
  /\ pc' = "parse_query"
  /\ ret' = [tokens |-> parse_query(qs)]
  /\ UNCHANGED <<onto, filterScope, qs, ind>>

\* search._smart_tokens applied to the (stripped) query string
DoSmartTokens ==
  /\ pc = "idle"
  /\ pc' = "smart_tokens"
  /\ ret' = [tokens |-> smart_tokens(Strip(qs))]
  /\ UNCHANGED <<onto, filterScope, qs, ind>>

\* build_sparql applied to the tokens of the query string
DoBuildSparql ==
  /\ pc = "idle"
  /\ pc' = "build_sparql"
  /\ ret' = build_sparql(smart_tokens(Strip(qs)))
  /\ UNCHANGED <<onto, filterScope, qs, ind>>

\* GET /search?q=qs with a DSL query
DoSearch ==
  /\ pc = "idle"
  /\ ~is_raw_sparql(Strip(qs))
  /\ pc' = "search"
  /\ \E out \in SearchOutcomes(qs) : ret' = out
  /\ UNCHANGED <<onto, filterScope, qs, ind>>

\* GET /errors
DoValidate ==
  /\ pc = "idle"
  /\ pc' = "validate_graph"
  /\ ret' = validate_graph
  /\ UNCHANGED <<onto, filterScope, qs, ind>>

\* merged_inferred_type_list(ind), called twice on the unchanged dataset
DoMergedInferred ==
  /\ pc = "idle"
  /\ pc' = "merged_inferred_type_list"
  /\ ret' = [list |-> merged_inferred_type_list(ind),
             again |-> merged_inferred_type_list(ind)]
  /\ UNCHANGED <<onto, filterScope, qs, ind>>

\* ------------------------------------------------------------- inputs
RECURSIVE JoinTerms(_)
JoinTerms(ts) ==
  IF ts = <<>> THEN <<>>
  ELSE IF Len(ts) = 1 THEN ts[1]
  ELSE ts[1] \o <<" ">> \o JoinTerms(Tail(ts))

\* every query of at most MaxTerms terms of a vocabulary
QueriesOver(V) == {JoinTerms(ts) : ts \in UNION {[1..n -> V] : n \in 0..MaxTerms}}

T_branch_ == K_branch \o <<":">>
T_type_merge == K_type \o <<":">> \o V_merge
T_type_initial == K_type \o <<":">> \o V_initial
T_type_root == K_type \o <<":">> \o V_root
T_type_commit == K_type \o <<":">> \o V_commit
T_Type_Merge == <<"T","y","p","e",":","M","e","r","g","e">>
T_type_normal == K_type \o <<":","n","o","r","m","a","l">>
T_limit_abc == K_limit \o <<":","a","b","c">>
T_limit_0 == K_limit \o <<":","0">>
T_limit_1 == K_limit \o <<":","1">>
T_limit_2 == K_limit \o <<":","2">>
T_limit_neg == K_limit \o <<":","-","1">>
T_msg_ == K_msg \o <<":">>
T_msg_sub_test == K_msg \o <<":","~">> \o V_test
T_msg_test == K_msg \o <<":">> \o V_test
T_msg_eq_Test == K_msg \o <<":","=","T","e","s","t">>
T_msg_q_unit == K_msg \o <<":","\"">> \o V_unit
T_test_q == V_test \o <<"\"">>
T_msg_sub_q_unit == K_msg \o <<":","~","\"">> \o V_unit
T_msg_phrase_unit == K_msg \o <<":","\"">> \o V_unit \o <<"\"">>
T_author_alice == K_author \o <<":">> \o V_alice
T_branch_main == K_branch \o <<":">> \o V_main
T_repo_DEM == K_repo \o <<":","D","E","M">>
T_MSG_Dev == <<"M","S","G",":","D","e","v">>

\* the queries the claims name
Q_branch_main_type_merge == JoinTerms(<<T_branch_, V_main, T_type_merge>>)
Q_phrase == JoinTerms(<<T_msg_q_unit, T_test_q, T_author_alice>>)

TokVocabulary ==
  {T_branch_, V_main, T_type_merge, T_msg_, T_MSG_Dev, V_dev, <<":">>, T_test_q}

QueryVocabulary ==
  {T_branch_, V_main, T_type_merge, T_type_initial, T_type_root, T_Type_Merge,
   T_type_normal, T_limit_abc, T_limit_2, T_limit_neg, T_msg_sub_test, T_msg_test,
   T_msg_eq_Test, T_msg_q_unit, T_test_q, T_msg_sub_q_unit, T_msg_phrase_unit,
   T_author_alice, T_repo_DEM}

\* the caller may or may not have trimmed the string
Padded(Q) == Q \cup {<<" ">> \o q \o <<" ", " ">> : q \in Q}

\* ------------------------------------------------------------ datasets
AllClasses == {"Commit", "InitialCommit", "MergeCommit", "MultiBranchRepository",
               "Repository", "Thing"}
AllProps == {"repoFullName", "branchName"}
CommitIds == <<"c1", "c2", "c3", "c4", "c5", "c6", "c7">>
FirstCommits(n) == {CommitIds[i] : i \in 1..n}

\* One repository "demo" with one branch "main" holding seven commits by
\* alice; parents is the hasParent map (empty for a log without links).
FixtureOnto(parents) ==
  [hasBranch |-> [r \in {"r1"} |-> {"b1"}],
   repoFullName |-> [r \in {"r1"} |-> <<V_demo>>],
   hasCommit |-> [b \in {"b1"} |-> FirstCommits(7)],
   hasInitialCommit |-> [b \in {"b1"} |-> {"c1"}],
   branchName |-> [b \in {"b1"} |-> <<V_main>>],
   commitMessage |-> [c \in FirstCommits(7) |->
       CASE c = "c1" -> {M_unit_test} [] c = "c2" -> {M_unittest}
         [] c = "c3" -> {M_contested} [] c = "c4" -> {M_merge_branch}
         [] c = "c5" -> {} [] c = "c6" -> {M_run_test} [] c = "c7" -> {M_quoted}],
   madeBy |-> [c \in FirstCommits(7) |-> {"alice"}],
   userLogin |-> [u \in {"alice"} |-> {V_alice}],
   hasParent |-> parents,
   is_a |-> [c \in FirstCommits(7) |-> {"Commit"}],
   indirect_is_a |-> [c \in FirstCommits(7) |-> {"Commit", "Thing"}],
   classes |-> AllClasses,
   props |-> AllProps]

NoParents == [c \in FirstCommits(7) |-> {}]
ChainParents ==
  [c \in FirstCommits(7) |->
     CASE c = "c1" -> {} [] c = "c2" -> {"c1"} [] c = "c3" -> {"c2"}
       [] c = "c4" -> {"c2", "c3"} [] c = "c5" -> {"c4"} [] c = "c6" -> {"c5"}
       [] c = "c7" -> {"c6"}]

\* Two repositories and two branches over NumCommits commits: which
\* repository owns which branch, which branch holds which commit, and the
\* names of the second repository and branch vary.
ExecOntos ==
  LET C == FirstCommits(NumCommits) IN
  { [hasBranch |-> hb,
     repoFullName |-> [r \in {"r1", "r2"} |-> IF r = "r1" THEN <<V_demo>> ELSE rn],
     hasCommit |-> hc,
     hasInitialCommit |-> [b \in {"b1", "b2"} |-> {"c1"}],
     branchName |-> [b \in {"b1", "b2"} |-> IF b = "b1" THEN <<V_main>> ELSE bn],
     commitMessage |-> [c \in C |-> {M_fix}],
     madeBy |-> [c \in C |-> IF c = "c1" THEN {"alice"} ELSE {}],
     userLogin |-> [u \in {"alice"} |-> {V_alice}],
     hasParent |-> [c \in C |-> {}],
     is_a |-> [c \in C |-> {"Commit"}],
     indirect_is_a |-> [c \in C |-> {"Commit", "Thing"}],
     classes |-> AllClasses,
     props |-> AllProps] :
    hb \in [{"r1", "r2"} -> SUBSET {"b1", "b2"}],
    hc \in [{"b1", "b2"} -> SUBSET C],
    rn \in {<<>>, <<V_demo>>},
    bn \in {<<>>, <<V_main>>, <<V_dev>>} }

ExecQueries ==
  {T_type_commit} \cup
  {JoinTerms(<<T_type_commit, l>>) : l \in {T_limit_0, T_limit_1, T_limit_2}}

\* Repositories with and without branches and names, branches with 0, 1 or
\* 2 names, with and without initial commit and commits, and a commit c1
\* that may assert InitialCommit and may have a recorded parent.
ValidateOntos ==
  { [hasBranch |-> [r \in {"r1", "r2"} |-> IF r = "r1" THEN hb1 ELSE hb2],
     repoFullName |-> IF "repoFullName" \in pr THEN rn
                      ELSE [r \in {"r1", "r2"} |-> <<>>],
     hasCommit |-> hc,
     hasInitialCommit |-> hi,
     branchName |-> IF "branchName" \in pr THEN bn ELSE [b \in {"b1", "b2"} |-> <<>>],
     commitMessage |-> [c \in {"c1", "c2"} |-> {M_fix}],
     madeBy |-> [c \in {"c1", "c2"} |-> {"alice"}],
     userLogin |-> [u \in {"alice"} |-> {V_alice}],
     hasParent |-> [c \in {"c1", "c2"} |-> IF c = "c1" THEN par ELSE {}],
     is_a |-> [c \in {"c1", "c2"} |-> IF c = "c1" THEN ty ELSE {"Commit"}],
     indirect_is_a |-> [c \in {"c1", "c2"} |-> {"Commit", "Thing"} \cup
                                               (IF c = "c1" THEN ty ELSE {})],
     classes |-> AllClasses,
     props |-> pr] :
    hb1 \in SUBSET {"b1", "b2"},
    hb2 \in {{}, {"b2"}},
    rn \in [{"r1", "r2"} -> {<<>>, <<V_demo>>}],
    bn \in [{"b1", "b2"} -> {<<>>, <<V_main>>, <<V_main, V_dev>>}],
    hi \in [{"b1", "b2"} -> {{}, {"c1"}}],
    hc \in [{"b1", "b2"} -> {{}, {"c1"}}],
    par \in {{}, {"c2"}},
    ty \in {{"Commit"}, {"InitialCommit"}},
    pr \in {AllProps, {}} }

\* One branch of three commits (c2's message begins "Merge branch"), with
\* every acyclic choice of parents and of asserted commit classes, and a
\* second repository of four or five branches.
InferOntos ==
  LET C == FirstCommits(3)
      B == {"b1", "b2", "b3", "b4", "b5"} IN
  { [hasBranch |-> [r \in {"r1", "r2"} |-> IF r = "r1" THEN {"b1"} ELSE many],
     repoFullName |-> [r \in {"r1", "r2"} |-> <<V_demo>>],
     hasCommit |-> [b \in B |-> IF b = "b1" THEN C ELSE {}],
     hasInitialCommit |-> [b \in B |-> {"c1"}],
     branchName |-> [b \in B |-> <<V_main>>],
     commitMessage |-> [c \in C |-> IF c = "c2" THEN {M_merge_branch} ELSE {M_fix}],
     madeBy |-> [c \in C |-> {"alice"}],
     userLogin |-> [u \in {"alice"} |-> {V_alice}],
     hasParent |-> [c \in C |-> CASE c = "c1" -> {} [] c = "c2" -> p2 [] c = "c3" -> p3],
     is_a |-> [x \in C \cup {"r1", "r2"} |-> IF x \in C THEN ty[x] ELSE {"Repository"}],
     indirect_is_a |-> [x \in C \cup {"r1", "r2"} |->
                          IF x \in C THEN ty[x] \cup {"Commit", "Thing"} \cup extra
                          ELSE {"Repository", "Thing"}],
     classes |-> cl,
     props |-> AllProps] :
    many \in {B \ {"b5"}, B},
    p2 \in SUBSET {"c1"},
    p3 \in SUBSET {"c1", "c2"},
    ty \in [C -> {{"Commit"}, {"InitialCommit"}, {"MergeCommit"}}],
    extra \in {{}, {"MergeCommit"}},
    cl \in {AllClasses, {"Commit", "Repository", "Thing"}} }

\* ------------------------------------------------------- specifications
Idle == pc = "idle" /\ ret = <<>>

\* the tokenizer alone
InitTok ==
  /\ onto = FixtureOnto(NoParents)
  /\ filterScope = TRUE
  /\ qs \in Padded(QueriesOver(TokVocabulary))
  /\ ind = "c1"
  /\ Idle

NextTok == DoParseQuery \/ DoSmartTokens

SpecTok == InitTok /\ [][NextTok]_vars

\* tokenizer, compiler and search over the fixture dataset
InitQuery ==
  /\ onto \in {FixtureOnto(NoParents), FixtureOnto(ChainParents)}
  /\ filterScope \in BOOLEAN
  /\ qs \in QueriesOver(QueryVocabulary)
  /\ ind = "c1"
  /\ Idle

NextQuery == DoParseQuery \/ DoBuildSparql \/ DoSearch

SpecQuery == InitQuery /\ [][NextQuery]_vars

\* search for all commits over varying datasets
InitExec ==
  /\ onto \in ExecOntos
  /\ filterScope = TRUE
  /\ qs \in ExecQueries
  /\ ind = "c1"
  /\ Idle

NextExec == DoSearch

SpecExec == InitExec /\ [][NextExec]_vars

\* the validator over varying datasets
InitValidate ==
  /\ onto \in ValidateOntos
  /\ filterScope = TRUE
  /\ qs = <<>>
  /\ ind = "c1"
  /\ Idle

NextValidate == DoValidate

SpecValidate == InitValidate /\ [][NextValidate]_vars

\* commit classification: the type:merge / type:initial searches and the
\* derived types, over datasets with and without parent edges
InitInfer ==
  /\ onto \in InferOntos
  /\ filterScope \in BOOLEAN
  /\ qs \in {T_type_merge, T_type_initial}
  /\ ind \in FirstCommits(3) \cup {"r1", "r2"}
  /\ Idle

NextInfer == DoSearch \/ DoMergedInferred

SpecInfer == InitInfer /\ [][NextInfer]_vars

Init == InitQuery
Next == NextQuery
Spec == SpecQuery

\* ------------------------------------------------ vocabulary of the claims
RequestParts == Split(Strip(qs))
RequestTokens == smart_tokens(Strip(qs))

\* a term "key:" followed by a term without ":"
RecoverySite(parts, i) ==
  /\ i < Len(parts)
  /\ HasColon(parts[i])
  /\ AfterColon(parts[i]) = <<>>
  /\ ~HasColon(parts[i + 1])

KeyOf(p) == Lower(BeforeColon(p))

\* the value a key term ends up with: inline, else the recovered next term
EffValue(parts, j) ==
  IF AfterColon(parts[j]) # <<>> THEN AfterColon(parts[j])
  ELSE IF j < Len(parts) /\ ~HasColon(parts[j + 1]) THEN parts[j + 1]
  ELSE <<>>

\* a term without ":" that no "key:" term before it takes as its value
FreeText(parts, j) ==
  ~HasColon(parts[j]) /\ ~(j > 1 /\ RecoverySite(parts, j - 1))

\* the words of a message: the maximal runs of letters and digits, lower-cased
RECURSIVE WordsAcc(_, _, _)
WordsAcc(s, cur, acc) ==
  IF s = <<>>
    THEN IF cur = <<>> THEN acc ELSE Append(acc, cur)
    ELSE IF IsAlnumLower(Head(s))
      THEN WordsAcc(Tail(s), Append(cur, Head(s)), acc)
      ELSE WordsAcc(Tail(s), <<>>, IF cur = <<>> THEN acc ELSE Append(acc, cur))

WordsOf(m) == WordsAcc(Lower(m), <<>>, <<>>)

\* the phrase (a sequence of words) occurs as a contiguous run of whole words
PhraseOccurs(phrase, m) ==
  LET w == WordsOf(m) IN
    \E i \in 0..(Len(w) - Len(phrase)) : SubSeq(w, i + 1, i + Len(phrase)) = phrase

RowCommits(rows) == {row.commit : row \in BagToSet(rows)}

\* the commits that belong to some branch of some repository
ReachableCommits ==
  {c \in Commit : \E r \in Repository : \E b \in onto.hasBranch[r] : c \in onto.hasCommit[b]}

\* how many rows (with repetitions) are about commit c
RowsAbout(rows, c) ==
  BagCardinality([row \in {x \in BagToSet(rows) : x.commit = c} |-> rows[row]])

Min(a, b) == IF a <= b THEN a ELSE b

\* ------------------------------------------------------------------ C1
MissingName ==
  \/ \E r \in Repository : "repoFullName" \in onto.props /\ onto.repoFullName[r] = <<>>
  \/ \E b \in Branch : "branchName" \in onto.props /\ onto.branchName[b] = <<>>

\* C1: validate_graph never raises: for every dataset, also one holding a
\* Repository with an empty repoFullName list or a Branch with an empty
\* branchName list, it returns a list of issues, and the missing name is
\* reported (the list is not empty) instead of crashing.
C1_ValidateNeverRaises ==
  pc = "validate_graph" =>
    /\ ret.status = "ok"
    /\ (MissingName => Len(ret.errs) >= 1)

\* ------------------------------------------------------------------ C2
RuleCount(errs, rule) == Cardinality({j \in 1..Len(errs) : errs[j].rule = rule})

\* C2: validate_graph emits exactly one Issue per violated invariant: one
\* Issue for each Repository without branches; for a Branch with two
\* branchName values an Issue about that branch; for a Commit that asserts
\* InitialCommit and has a recorded parent an Issue "Initial commit has
\* parent(s)".
C2_OneIssuePerViolation ==
  (pc = "validate_graph" /\ ret.status = "ok") =>
    /\ RuleCount(ret.errs, "Repository must have >=1 branch")
         = Cardinality({r \in Repository : onto.hasBranch[r] = {}})
    /\ \A b \in Branch :
         Len(onto.branchName[b]) = 2 =>
           \E j \in 1..Len(ret.errs) : ret.errs[j].where = BRANCH_ \o onto.branchName[b][1]
    /\ \A c \in Commit :
         ("InitialCommit" \in onto.is_a[c] /\ onto.hasParent[c] # {}) =>
           RuleCount(ret.errs, "Initial commit has parent(s)") >= 1

\* ------------------------------------------------------------------ C3
\* C3: for every token mapping whose limit is absent or not parsable as an
\* integer, build_sparql raises nothing and compiles limit 50.
C3_BadLimitFallsBack ==
  (pc = "build_sparql" /\ ~IsInt(DictGet(RequestTokens, K_limit))) =>
    /\ ret.status = "ok"
    /\ ret.limit = 50

\* ------------------------------------------------------------------ C4
\* C4: when a term is "key:" with an empty value and the next term holds no
\* ":", the next term becomes the key's value (unless a later term sets the
\* key again) and is not also taken as free text: msg is set only by a msg
\* key term or by a term that is free text.  "branch: main type:merge"
\* tokenizes to exactly {branch: main, type: merge}.
C4_ValueRecovery ==
  pc \in {"parse_query", "smart_tokens"} =>
    LET parts == RequestParts
        tokens == ret.tokens
    IN /\ \A i \in 1..Len(parts) :
            RecoverySite(parts, i) =>
              LET k == KeyOf(parts[i]) IN
                /\ k \in DOMAIN tokens
                /\ (\A j \in (i + 1)..Len(parts) :
                      (HasColon(parts[j]) /\ KeyOf(parts[j]) = k) => EffValue(parts, j) = <<>>)
                   => tokens[k] = parts[i + 1]
                /\ K_msg \in DOMAIN tokens =>
                     \/ \E j \in 1..Len(parts) :
                          /\ HasColon(parts[j]) /\ KeyOf(parts[j]) = K_msg
                          /\ EffValue(parts, j) = tokens[K_msg]
                     \/ \E j \in 1..Len(parts) :
                          FreeText(parts, j) /\ parts[j] = tokens[K_msg]
       /\ qs = Q_branch_main_type_merge =>
            tokens = [k \in {K_branch, K_type} |-> IF k = K_branch THEN V_main ELSE V_merge]

\* the claimed query has been tokenized, with its recovery site
C4_Witness ==
  /\ pc = "parse_query"
  /\ qs = Q_branch_main_type_merge
  /\ RecoverySite(RequestParts, 1)
  /\ DOMAIN ret.tokens = {K_branch, K_type}

\* ------------------------------------------------------------------ C5
QuotedUnitTest == <<"\"">> \o V_unit \o <<" ">> \o V_test \o <<"\"">>

PhraseUnitTest(m) == PhraseOccurs(<<V_unit, V_test>>, m)

\* C5: msg:"unit test" author:alice tokenizes to msg = "unit test" with its
\* quotes and author = alice, and the search returns exactly the commits
\* whose message holds the words unit, test next to each other ("Added unit
\* test coverage", not "Added unittest coverage").
C5_PhraseFilter ==
  /\ (pc = "parse_query" /\ qs = Q_phrase) =>
       ret.tokens = [k \in {K_msg, K_author} |-> IF k = K_msg THEN QuotedUnitTest ELSE V_alice]
  /\ (pc = "search" /\ qs = Q_phrase) =>
       /\ ret.status = "ok"
       /\ RowCommits(ret.rows) = {c \in ReachableCommits : \E m \in onto.commitMessage[c] : PhraseUnitTest(m)}

\* ------------------------------------------------------------------ C6
MsgOnly ==
  /\ Len(RequestParts) = 1
  /\ DOMAIN RequestTokens = {K_msg}

MsgValue == RequestTokens[K_msg]

IsQuoted(v) == Len(v) >= 2 /\ v[1] = "\"" /\ v[Len(v)] = "\""

\* C6: a query that is the single term msg:~X returns the commits whose raw
\* message, lower-cased, contains lower-cased X; msg:X and msg:=X return the
\* commits whose message has X among its words.
C6_MsgModes ==
  (pc = "search" /\ MsgOnly) =>
    LET v == MsgValue
        X == IF v[1] \in {"~", "="} THEN Tail(v) ELSE v
        SubOfMsg == {c \in ReachableCommits :
                       \E m \in onto.commitMessage[c] : Contains(Lower(m), Lower(X))}
        WordOfMsg == {c \in ReachableCommits :
                        \E m \in onto.commitMessage[c] : PhraseOccurs(<<Lower(X)>>, m)}
    IN IF v[1] = "~"
         THEN X # <<>> => RowCommits(ret.rows) = SubOfMsg
         ELSE (X # <<>> /\ ~IsQuoted(v)) => RowCommits(ret.rows) = WordOfMsg

\* C6 for the values X that hold no double quote: the two modes are as the
\* claim says (this restriction holds of the model).
MsgModesWithoutQuote ==
  (pc = "search" /\ MsgOnly /\ "\"" \notin Chars(MsgValue)) => C6_MsgModes

\* ------------------------------------------------------------------ C7
ClauseTags(where) == {where[j].tag : j \in 1..Len(where)}
MergeTags == {"merge_union", "merge_msg"}
InitialTags == {"initial_union", "initial_type"}

\* C7: type merge compiles the Merge entity constraint, type initial and
\* type root both compile the Initial entity constraint, and any other or
\* absent type compiles no entity constraint.
C7_EntityKind ==
  (pc = "build_sparql" /\ ret.status = "ok") =>
    LET ty == Lower(IF K_type \in DOMAIN RequestTokens THEN RequestTokens[K_type] ELSE V_commit)
        tags == ClauseTags(ret.where)
    IN /\ ty = V_merge => (tags \cap MergeTags # {} /\ tags \cap InitialTags = {})
       /\ ty \in {V_initial, V_root} => (tags \cap InitialTags # {} /\ tags \cap MergeTags = {})
       /\ ty \notin {V_merge, V_initial, V_root} => tags \cap (MergeTags \cup InitialTags) = {}

\* ------------------------------------------------------------------ C8
BeginsMergeBranch(m) == StartsWith(m, <<"M","e","r","g","e"," ","b","r","a","n","c","h">>)

Ordinary(c) ==
  /\ \A m \in onto.commitMessage[c] : ~MergeHeuristic(m)
  /\ onto.is_a[c] \cap {"MergeCommit", "InitialCommit"} = {}

\* C8: in a dataset without any parent edge, type:merge returns the commits
\* whose message begins "Merge branch", and a commit with an ordinary
\* message that asserts neither class is returned by neither type:merge nor
\* type:initial and gets neither MergeCommit nor InitialCommit as a derived
\* type unless the reasoner supplied it.
C8_NoParentEdges ==
  ~HAS_PARENTS =>
    /\ (pc = "search" /\ qs = T_type_merge) =>
         /\ \A c \in ReachableCommits :
              (\E m \in onto.commitMessage[c] : BeginsMergeBranch(m)) => c \in RowCommits(ret.rows)
         /\ \A c \in ReachableCommits : Ordinary(c) => c \notin RowCommits(ret.rows)
    /\ (pc = "search" /\ qs = T_type_initial) =>
         \A c \in ReachableCommits : Ordinary(c) => c \notin RowCommits(ret.rows)
    /\ (pc = "merged_inferred_type_list" /\ ind \in Commit /\ Ordinary(ind)) =>
         \A t \in {"MergeCommit", "InitialCommit"} :
           t \in Range(ret.list) => t \in onto.indirect_is_a[ind]

\* ------------------------------------------------------------------ C9
PlainCommitQuery ==
  /\ DOMAIN RequestTokens \subseteq {K_type, K_limit}
  /\ K_type \in DOMAIN RequestTokens
  /\ RequestTokens[K_type] = V_commit
  /\ K_limit \in DOMAIN RequestTokens =>
       (IsInt(RequestTokens[K_limit]) /\ IntOf(RequestTokens[K_limit]) >= 0)

RequestLimit ==
  IF K_limit \in DOMAIN RequestTokens THEN IntOf(RequestTokens[K_limit]) ELSE 50

\* C9 as claimed: the search type:commit without filters returns every
\* commit of some branch of some repository exactly once, also a commit of
\* several branches or repositories, truncated to limit rows.
C9_EachCommitOnce ==
  (pc = "search" /\ PlainCommitQuery) =>
    /\ ret.status = "ok"
    /\ \A c \in ReachableCommits : RowsAbout(ret.rows, c) <= 1
    /\ RequestLimit >= Cardinality(ReachableCommits) =>
         \A c \in ReachableCommits : RowsAbout(ret.rows, c) = 1

CombinationsOf(r, b, c) ==
  { [repoName |-> Cell(rn), branchName |-> Cell(bn), commit |-> c, msg |-> Cell(m),
     authorName |-> Cell(an)] :
      rn \in Opt(Range(onto.repoFullName[r])),
      bn \in Opt(Range(onto.branchName[b])),
      m \in Opt(onto.commitMessage[c]),
      an \in Opt(UNION {onto.userLogin[u] : u \in onto.madeBy[c]}) }

Combinations ==
  UNION { CombinationsOf(x[1], x[2], x[3]) :
            x \in {y \in Repository \X Branch \X Commit :
                     y[2] \in onto.hasBranch[y[1]] /\ y[3] \in onto.hasCommit[y[2]]} }

\* C9 as amended: the rows are combinations (repository name, branch name,
\* commit, message, author login) of a commit of a branch of a repository,
\* none repeated, min(limit, number of combinations) of them; when nothing
\* is cut off every such commit is in some row.
C9_RowPerCombination ==
  (pc = "search" /\ PlainCommitQuery) =>
    /\ ret.status = "ok"
    /\ BagToSet(ret.rows) \subseteq Combinations
    /\ \A row \in BagToSet(ret.rows) : CopiesIn(row, ret.rows) = 1
    /\ BagCardinality(ret.rows) = Min(RequestLimit, Cardinality(Combinations))
    /\ RequestLimit >= Cardinality(Combinations) => RowCommits(ret.rows) = ReachableCommits

\* a commit of two differently named branches, returned in two rows
C9_Witness ==
  /\ pc = "search"
  /\ PlainCommitQuery
  /\ RequestLimit = 2
  /\ \E c \in ReachableCommits : RowsAbout(ret.rows, c) = 2

\* ------------------------------------------------------------------ C10
\* C10: the list merged_inferred_type_list returns holds no type the entity
\* asserts, also for a commit without parents that asserts InitialCommit
\* and one with two parents that asserts MergeCommit, and a second call on
\* the unchanged dataset returns the same list.
C10_DerivedDisjointFromAsserted ==
  pc = "merged_inferred_type_list" =>
    /\ Range(ret.list) \cap onto.is_a[ind] = {}
    /\ ret.again = ret.list

====
